---- MODULE Spec2Model ----
(***************************************************************************)
(* Model of the gedit shellcheck plugin: the check scheduler of            *)
(* ShellCheckViewActivatable (src/shellcheck/__init__.py) together with    *)
(* the GLib event loop sources it registers (timeouts, io watches) and the *)
(* shellcheck processes it spawns, and the gutter renderer                  *)
(* (src/shellcheck/gutterrenderer.py): do_draw, preview_fix, merge_ranges. *)
(*                                                                         *)
(* The plugin object is the record Cur; every handler of the source is an  *)
(* operator from such a record (and the values it reads from the editor    *)
(* and the operating system) to the record after the handler returned, so  *)
(* that a handler calling another one is the composition of the two.       *)
(***************************************************************************)
EXTENDS Integers, Sequences, FiniteSets, TLC

\* ---------------------------------------------------------------- bounds

\* Number of shellcheck processes that run on with nothing watching their
\* output.
MaxOrphans == 1

\* Tokens returned by one stdout.read(4096): the 4096 characters of the
\* source, counted in tokens of the tool's output.
ReadChunk == 2

\* The line counts of the delay runs go up to 2000 * MaxBlocks + 1999.
MaxBlocks == 60

\* merge_ranges is run on lists of up to MaxRanges intervals of 0..MaxOffset.
MaxRanges == 3

MaxOffset == 3

\* preview_fix is run on fixes of up to MaxReplacements replacements.
MaxReplacements == 2

\* do_draw is run on snapshots of up to MaxMessages messages.
MaxMessages == 2

\* ------------------------------------------------------- values and inputs

None == "None"

\* get_file().get_location(): no location, a location without a parent, a
\* file in a folder.
Locations == {None, "root", "file"}

\* get_language(): no language, or a language with its id.
Languages == {None, "sh", "python"}

\* Line counts get_line_count() returns in the scheduler runs.
LineCounts == {1, 2000, 100000}

\* The tool's output, in tokens: OPEN is {"comments":[ , CLOSE is ]} , D1
\* and D2 are comment records, EMPTYOBJ is the JSON document {} , TEXT is
\* text that is no JSON. An output that stops after a comment is cut short.
Outputs ==
  { <<"OPEN", "CLOSE">>,
    <<"OPEN", "D1", "D2", "CLOSE">>,
    <<"OPEN", "D2", "CLOSE">>,
    <<"OPEN", "D1">>,
    <<"TEXT">>,
    <<"EMPTYOBJ">> }

\* Outcomes of subprocess.Popen: the exception it raises, or a process that
\* is going to write out.
PopenOutcomes ==
  {[res |-> "ok", out |-> o] : o \in Outputs}
    \cup {[res |-> r, out |-> <<>>] : r \in {"FileNotFoundError", "PermissionError"}}

CommentTokens == {"D1", "D2"}

Comment(tok) ==
  IF tok = "D1"
  THEN [file |-> "-", line |-> 1, endLine |-> 2, level |-> "error"]
  ELSE [file |-> "-", line |-> 2, endLine |-> 2, level |-> "bogus"]

Min(a, b) == IF a < b THEN a ELSE b

Max(a, b) == IF a > b THEN a ELSE b

\* ------------------------------------------------------------------ Level

LevelMembers == <<"NOTE", "INFO", "WARN", "ERROR", "UNKNOWN">>

LevelCode(l) ==
  CASE l = "NOTE" -> "style"
    [] l = "INFO" -> "info"
    [] l = "WARN" -> "warning"
    [] l = "ERROR" -> "error"
    [] OTHER -> "?"

by_code(code) ==
  IF \E i \in 1..Len(LevelMembers) : LevelCode(LevelMembers[i]) = code
  THEN LevelMembers[CHOOSE i \in 1..Len(LevelMembers) :
                      /\ LevelCode(LevelMembers[i]) = code
                      /\ \A j \in 1..(i - 1) : LevelCode(LevelMembers[j]) # code]
  ELSE "UNKNOWN"

\* members.index(level)
LevelIndex(l) ==
  CHOOSE i \in 1..Len(LevelMembers) : LevelMembers[i] = l

\* Level.__lt__
Level_lt(a, b) == LevelIndex(a) < LevelIndex(b)

\* Level.__gt__ as functools.total_ordering derives it from __lt__.
Level_gt(a, b) == ~Level_lt(a, b) /\ a # b

\* ------------------------------------------------------------------ state

VARIABLES
  phase,            \* "constructed", "active" (do_activate ran), "deactivated"
  bufLang,          \* language id of the view's buffer
  bufLoc,           \* location of the file of the view's buffer
  buffer,           \* self.buffer: None or a buffer
  buffer_signals,   \* self.buffer_signals: the handlers connected to self.buffer
  connected,        \* self.connected
  gutter,           \* the renderer is inserted in the gutter
  location,         \* self.location
  project_folder,   \* self.project_folder
  context_data,     \* self.context_data: the snapshot
  update_timeout,   \* self.update_timeout: source id or 0
  parse_signal,     \* self.parse_signal: source id or 0
  timers,           \* event loop: the ids of the registered timeouts
  watches,          \* event loop: the registered io watches [id, proc, data]
  orphans,          \* number of running processes no watch refers to
  fx,               \* what the last step did
  preview,          \* the last call of GutterRenderer.preview_fix
  merged,           \* the last call of GutterRenderer.merge_ranges
  drawn             \* the last call of GutterRenderer.do_draw

vars == <<phase, bufLang, bufLoc, buffer, buffer_signals, connected, gutter,
          location, project_folder, context_data, update_timeout,
          parse_signal, timers, watches, orphans, fx, preview, merged,
          drawn>>

FxNone ==
  [op |-> "none", update |-> "none", warned |-> FALSE, redraw |-> FALSE,
   raised |-> "none", spawned |-> FALSE, scheduled |-> 0, hup |-> FALSE,
   exited |-> FALSE, parsed |-> FALSE, data |-> <<>>, out |-> <<>>,
   superseded |-> FALSE, fresh |-> FALSE, attached |-> FALSE,
   detached |-> FALSE, orphaned |-> 0, n_lines |-> 0, watch |-> 0,
   changed |-> FALSE]

\* No call of preview_fix, merge_ranges, do_draw yet.
PreviewNone ==
  [called |-> FALSE, items |-> <<>>, text |-> <<>>, ranges |-> <<>>,
   inserted_ranges |-> <<>>, raised |-> "none"]

MergedNone ==
  [called |-> FALSE, ranges |-> <<>>, result |-> <<>>, raised |-> "none",
   again |-> <<>>]

DrawnNone == [called |-> FALSE, line |-> 0, messages |-> <<>>, level |-> None]

RendererIdle ==
  /\ preview = PreviewNone
  /\ merged = MergedNone
  /\ drawn = DrawnNone

\* The plugin object and the event loop as one record. The rest is scratch:
\* ret is the value the last callback returned to the event loop, read_n
\* and read_popen say that the handler read the line count and called Popen.
Cur ==
  [buffer |-> buffer, buffer_signals |-> buffer_signals,
   connected |-> connected, gutter |-> gutter, location |-> location,
   project_folder |-> project_folder, context_data |-> context_data,
   update_timeout |-> update_timeout, parse_signal |-> parse_signal,
   timers |-> timers, watches |-> watches, orphans |-> orphans,
   fx |-> FxNone, ret |-> FALSE, read_n |-> FALSE, read_popen |-> FALSE]

Commit(s) ==
  /\ s.orphans <= MaxOrphans
  /\ buffer' = s.buffer
  /\ buffer_signals' = s.buffer_signals
  /\ connected' = s.connected
  /\ gutter' = s.gutter
  /\ location' = s.location
  /\ project_folder' = s.project_folder
  /\ context_data' = s.context_data
  /\ update_timeout' = s.update_timeout
  /\ parse_signal' = s.parse_signal
  /\ timers' = s.timers
  /\ watches' = s.watches
  /\ orphans' = s.orphans
  /\ fx' = s.fx
  /\ UNCHANGED <<preview, merged, drawn>>

Init ==
  /\ phase = "constructed"
  /\ bufLang = None
  /\ bufLoc = None
  /\ buffer = None
  /\ buffer_signals = <<>>
  /\ connected = FALSE
  /\ gutter = FALSE
  /\ location = None
  /\ project_folder = None
  /\ context_data = <<>>
  /\ update_timeout = 0
  /\ parse_signal = 0
  /\ timers = {}
  /\ watches = {}
  /\ orphans = 0
  /\ fx = FxNone
  /\ RendererIdle

\* ------------------------------------------------------------- event loop

UsedIds(s) ==
  s.timers \cup {w.id : w \in s.watches}
    \cup {s.update_timeout, s.parse_signal}

\* The id GLib gives a new source: one no registered source has and no
\* field of the plugin still holds.
FreshId(s) ==
  CHOOSE i \in 1..(Cardinality(UsedIds(s)) + 1) :
    /\ i \notin UsedIds(s)
    /\ \A j \in 1..(i - 1) : j \in UsedIds(s)

\* GLib.source_remove(id). The process of a removed watch is not touched:
\* unless it has exited, it runs on with nothing watching its output.
source_remove(s, id) ==
  LET left == Cardinality({w \in s.watches : w.id = id /\ w.proc.st # "exited"})
  IN [s EXCEPT !.timers = @ \ {id},
               !.watches = {w \in @ : w.id # id},
               !.orphans = @ + left,
               !.fx.orphaned = @ + left]

\* The processes started before are superseded by a new cycle (history: the
\* processes themselves are not touched).
Supersede(s) ==
  [s EXCEPT !.watches = {[w EXCEPT !.proc.superseded = TRUE] : w \in @}]

\* ----------------------------------------------------------------- parser

\* json.loads on the accumulated output.
json_loads(data) ==
  IF data = <<"EMPTYOBJ">>
  THEN [ok |-> TRUE, has_comments |-> FALSE, comments |-> <<>>]
  ELSE IF /\ Len(data) >= 2
          /\ data[1] = "OPEN"
          /\ data[Len(data)] = "CLOSE"
          /\ \A i \in 2..(Len(data) - 1) : data[i] \in CommentTokens
       THEN [ok |-> TRUE, has_comments |-> TRUE,
             comments |-> [i \in 1..(Len(data) - 2) |-> Comment(data[i + 1])]]
       ELSE [ok |-> FALSE, has_comments |-> FALSE, comments |-> <<>>]

WithLevel(comment) ==
  [file |-> comment.file, line |-> comment.line, endLine |-> comment.endLine,
   level |-> comment.level, levelcls |-> by_code(comment.level)]

\* parse_shellcheck dropping the snapshot when json.loads fails.
parse_shellcheck_ClearOnError(s, data) ==
  LET j == json_loads(data)
      s1 == [s EXCEPT !.fx.parsed = TRUE, !.fx.data = data]
  IN IF ~j.ok THEN [s1 EXCEPT !.context_data = <<>>]
     ELSE IF ~j.has_comments THEN [s1 EXCEPT !.fx.raised = "KeyError"]
     ELSE [s1 EXCEPT
             !.context_data = [i \in 1..Len(j.comments) |-> WithLevel(j.comments[i])],
             !.fx.redraw = TRUE]

\* parse_shellcheck(output)
parse_shellcheck(s, data) ==
  LET j == json_loads(data)
      s1 == [s EXCEPT !.fx.parsed = TRUE, !.fx.data = data,
                      !.watches = {[w EXCEPT !.parses =
                                      IF w.id = s.fx.watch THEN @ + 1 ELSE @] :
                                    w \in @}]
  IN IF ~j.ok THEN s1
     ELSE IF ~j.has_comments THEN [s1 EXCEPT !.fx.raised = "KeyError"]
     ELSE [s1 EXCEPT
             !.context_data = [i \in 1..Len(j.comments) |-> WithLevel(j.comments[i])],
             !.fx.redraw = TRUE]

\* -------------------------------------------------------------- scheduler

CeilDiv(a, b) == (a + b - 1) \div b

\* The delay with the line count rounded up to blocks of 2000 lines.
Delay_Ceil(n_lines) == Min(10000, 200 * CeilDiv(n_lines, 2000))

\* The delay of update.
Delay(n_lines) == Min(10000, 200 * ((n_lines \div 2000) + 1))

\* on_update_timeout without `self.update_timeout = 0`.
TimeoutReset_KeepHandle(s) ==
  IF s.parse_signal # 0
  THEN [source_remove(s, s.parse_signal) EXCEPT !.parse_signal = 0]
  ELSE s

\* The start of on_update_timeout: the handle reset and the watch removal.
TimeoutReset(s) ==
  LET s1 == [s EXCEPT !.update_timeout = 0]
  IN IF s1.parse_signal # 0
     THEN [source_remove(s1, s1.parse_signal) EXCEPT !.parse_signal = 0]
     ELSE s1

\* The Popen call of on_update_timeout and what follows it. e.popen is the
\* outcome of Popen.
Spawn(s, e) ==
  IF e.popen.res = "FileNotFoundError"
  THEN [s EXCEPT !.fx.warned = TRUE, !.read_popen = TRUE]
  ELSE IF e.popen.res # "ok"
  THEN [s EXCEPT !.fx.raised = e.popen.res, !.read_popen = TRUE]
  ELSE LET id == FreshId(s)
           proc == [st |-> "running", out |-> e.popen.out, sent |-> 0,
                    fresh |-> TRUE, superseded |-> FALSE]
       IN [s EXCEPT
             !.watches = @ \cup {[id |-> id, proc |-> proc, data |-> <<>>,
                                  parses |-> 0]},
             !.parse_signal = id,
             !.fx.spawned = TRUE,
             !.read_popen = TRUE]

on_update_timeout(s, e) ==
  LET s1 == Supersede(TimeoutReset(s))
      s2 == IF s1.buffer = None THEN [s1 EXCEPT !.context_data = <<>>] ELSE s1
  IN IF s2.project_folder = None THEN s2
     ELSE IF s2.buffer = None THEN [s2 EXCEPT !.fx.raised = "AttributeError"]
     ELSE Spawn(s2, e)

\* update leaving the watch of the check in flight.
UpdateCancelParse_KeepWatch(s) == s

\* The watch removal of update, after the pending-timer guard.
UpdateCancelParse(s) ==
  IF s.parse_signal # 0
  THEN [source_remove(s, s.parse_signal) EXCEPT !.parse_signal = 0]
  ELSE s

\* update without its pending-timer guard.
TimerPending_NoGuard(s) == FALSE

\* The pending-timer guard of update.
TimerPending(s) == s.update_timeout # 0

\* The test of update for the initial check.
IsInitial(s) == s.context_data = <<>>

update(s, e) ==
  IF ~s.connected THEN [s EXCEPT !.fx.update = "disconnected"]
  ELSE IF TimerPending(s) THEN [s EXCEPT !.fx.update = "pending"]
  ELSE LET s1 == Supersede(UpdateCancelParse(s))
       IN IF IsInitial(s1)
          THEN on_update_timeout([s1 EXCEPT !.fx.update = "immediate"], e)
          ELSE LET delay == Delay(e.n_lines)
                   id == FreshId(s1)
               IN [s1 EXCEPT
                     !.timers = @ \cup {id},
                     !.update_timeout = id,
                     !.fx.update = "scheduled",
                     !.fx.scheduled = delay,
                     !.fx.n_lines = e.n_lines,
                     !.read_n = TRUE]

\* ------------------------------------------------------- attach and detach

disconnect_gutter(s) ==
  IF ~s.connected THEN s
  ELSE [s EXCEPT !.gutter = FALSE,
                 !.buffer_signals = SubSeq(@, 1, Len(@) - 1),
                 !.connected = FALSE,
                 !.fx.detached = TRUE]

connect_gutter(s) ==
  IF s.connected THEN s
  ELSE [s EXCEPT !.gutter = TRUE,
                 !.buffer_signals = Append(@, "changed"),
                 !.connected = TRUE,
                 !.fx.attached = TRUE]

\* get_id().startswith("sh") for the language ids of Languages.
StartsWithSh(id) == id = "sh"

\* e.lang is the language id of self.buffer.
should_check(s, e) ==
  IF s.location = None THEN FALSE
  ELSE e.lang # None /\ StartsWithSh(e.lang)

\* location.has_parent() of find_project_folder
has_parent(loc) == loc = "file"

\* e.loc is the location of the file of self.buffer.
update_location(s, e) ==
  LET s1 == [s EXCEPT !.location = e.loc]
  IN IF ~should_check(s1, e) THEN disconnect_gutter(s1)
     ELSE IF ~has_parent(s1.location) THEN disconnect_gutter(s1)
     ELSE update(connect_gutter([s1 EXCEPT !.project_folder = "dir"]), e)

\* on_notify_buffer forgetting parse_signal without removing the watch.
NotifyCancel_KeepWatch(s) ==
  LET s1 == IF s.update_timeout # 0
            THEN source_remove(s, s.update_timeout)
            ELSE s
  IN [s1 EXCEPT !.parse_signal = 0]

\* The source removals at the start of on_notify_buffer and do_deactivate.
NotifyCancel(s) ==
  LET s1 == IF s.update_timeout # 0
            THEN source_remove(s, s.update_timeout)
            ELSE s
  IN IF s1.parse_signal # 0
     THEN [source_remove(s1, s1.parse_signal) EXCEPT !.parse_signal = 0]
     ELSE s1

\* view.get_buffer() is another buffer.
on_notify_buffer(s, e) ==
  LET s1 == NotifyCancel(s)
      s2 == IF s1.buffer # None THEN [s1 EXCEPT !.buffer_signals = <<>>] ELSE s1
      s3 == [s2 EXCEPT !.buffer = "buffer",
                       !.buffer_signals = <<"saved", "loaded", "notify::language">>]
  IN update_location(s3, e)

do_deactivate(s) ==
  LET s1 == NotifyCancel(s)
  IN [s1 EXCEPT !.buffer_signals = <<>>, !.buffer = None, !.gutter = FALSE]

\* ------------------------------------------------------- output callback

\* flags & GLib.IO_HUP when the callback is dispatched.
Hup(pr) == pr.st # "running"

\* on_read taking a process that has not exited for one that has.
WaitOk_NoTimeout(pr) == TRUE

\* proc.wait(timeout=0.5) returns (it raises TimeoutExpired otherwise).
WaitOk(pr) == pr.st = "exited"

\* The tokens stdout.read() returns: all up to the end of the stream.
FinalRead(out, rd) == SubSeq(out, rd + 1, Len(out))

\* data += chunk
Accumulate(data, chunk) == data \o chunk

\* on_read for the watch w. stdout.read(4096) on the text stream returns
\* when it has the whole chunk or has met the end of the stream, so the
\* process has written that much when it returns.
on_read(s, w) ==
  LET pr == w.proc
      rd == Len(w.data)
      take == Min(ReadChunk, Len(pr.out) - rd)
      data1 == Accumulate(w.data, SubSeq(pr.out, rd + 1, rd + take))
      pr1 == [pr EXCEPT !.sent = Max(@, rd + take),
                        !.st = IF @ = "running" /\ take < ReadChunk
                               THEN "closed" ELSE @]
      w1 == [w EXCEPT !.proc = pr1, !.data = data1]
      s1 == [s EXCEPT !.watches = (@ \ {w}) \cup {w1},
                      !.fx.watch = w.id,
                      !.fx.hup = pr.st # "running",
                      !.fx.exited = pr.st = "exited",
                      !.fx.out = pr.out,
                      !.fx.superseded = pr.superseded,
                      !.fx.fresh = pr.fresh]
  IN IF ~Hup(pr) THEN [s1 EXCEPT !.ret = TRUE]
     ELSE IF ~WaitOk(pr) THEN [s1 EXCEPT !.ret = TRUE]
     ELSE LET data2 == Accumulate(data1, FinalRead(pr.out, Len(data1)))
              s2 == parse_shellcheck(s1, data2)
          IN IF s2.fx.raised # "none" THEN [s2 EXCEPT !.ret = FALSE]
             ELSE [s2 EXCEPT !.parse_signal = 0, !.ret = FALSE]

\* The event loop drops a source whose callback returned a false value (an
\* exception in the callback counts as one).
AfterCallback(s, id) == IF s.ret THEN s ELSE source_remove(s, id)

\* ---------------------------------------------------------------- actions

Env(lang, loc, n, po) ==
  [lang |-> lang, loc |-> loc, n_lines |-> n, popen |-> po]

Start(op) == [Cur EXCEPT !.fx.op = op]

\* A handler that reads no line count, or does not call Popen, is run for
\* one value of that input only: the others give the same step. s is the
\* handler's result for NoInput.
NoInput == [n_lines |-> 1, popen |-> [res |-> "FileNotFoundError", out |-> <<>>]]

LineCountsOf(s) == IF s.read_n THEN LineCounts ELSE {NoInput.n_lines}

PopenOutcomesOf(s) == IF s.read_popen THEN PopenOutcomes ELSE {NoInput.popen}

\* The text the running checks were given is no longer the text of the
\* view's buffer (history).
Stale(s) ==
  [s EXCEPT !.watches = {[w EXCEPT !.proc.fresh = FALSE] : w \in @}]

\* The text of the view's buffer was edited: the checks in flight have the
\* text before the edit (history).
Changed(s) == [Stale(s) EXCEPT !.fx.changed = TRUE]

HasHandler(sig) == \E i \in 1..Len(buffer_signals) : buffer_signals[i] = sig

\* do_activate: connects the view's signals and calls on_notify_buffer.
DoActivate ==
  /\ phase = "constructed"
  /\ \E l \in Languages, loc \in Locations :
       LET H(n, po) == on_notify_buffer(Start("on_notify_buffer"),
                                        Env(l, loc, n, po))
           r0 == H(NoInput.n_lines, NoInput.popen)
       IN /\ \E n \in LineCountsOf(r0), po \in PopenOutcomesOf(r0) :
               Commit(H(n, po))
          /\ bufLang' = l
          /\ bufLoc' = loc
  /\ phase' = "active"

\* notify::buffer of the view: the view shows another buffer.
NotifyBuffer ==
  /\ phase = "active"
  /\ \E l \in Languages, loc \in Locations :
       LET H(n, po) == on_notify_buffer(Stale(Start("on_notify_buffer")),
                                        Env(l, loc, n, po))
           r0 == H(NoInput.n_lines, NoInput.popen)
       IN /\ \E n \in LineCountsOf(r0), po \in PopenOutcomesOf(r0) :
               Commit(H(n, po))
          /\ bufLang' = l
          /\ bufLoc' = loc
  /\ UNCHANGED phase

\* notify::show-right-margin, notify::right-margin-position of the view.
ViewNotify ==
  /\ phase = "active"
  /\ LET H(n, po) == update(Start("update"), Env(bufLang, bufLoc, n, po))
         r0 == H(NoInput.n_lines, NoInput.popen)
     IN \E n \in LineCountsOf(r0), po \in PopenOutcomesOf(r0) :
          Commit(H(n, po))
  /\ UNCHANGED <<phase, bufLang, bufLoc>>

\* saved or loaded of the buffer: the file may have another location.
BufferSavedLoaded ==
  /\ phase = "active"
  /\ \E sig \in {"saved", "loaded"}, loc \in Locations :
       /\ HasHandler(sig)
       /\ bufLoc' = loc
       /\ LET H(n, po) == update_location(Start("update_location"),
                                          Env(bufLang, loc, n, po))
              r0 == H(NoInput.n_lines, NoInput.popen)
          IN \E n \in LineCountsOf(r0), po \in PopenOutcomesOf(r0) :
               Commit(H(n, po))
  /\ UNCHANGED <<phase, bufLang>>

\* notify::language of the buffer.
BufferLanguage ==
  /\ phase = "active"
  /\ \E l \in Languages \ {bufLang} :
       /\ bufLang' = l
       /\ LET H(n, po) == IF HasHandler("notify::language")
                          THEN update_location(Start("update_location"),
                                               Env(l, bufLoc, n, po))
                          ELSE Start("none")
              r0 == H(NoInput.n_lines, NoInput.popen)
          IN \E n \in LineCountsOf(r0), po \in PopenOutcomesOf(r0) :
               Commit(H(n, po))
  /\ UNCHANGED <<phase, bufLoc>>

\* changed of the buffer: the text was edited.
BufferChanged ==
  /\ phase = "active"
  /\ LET H(n, po) == IF HasHandler("changed")
                     THEN update(Changed(Start("update")),
                                 Env(bufLang, bufLoc, n, po))
                     ELSE Changed(Start("none"))
         r0 == H(NoInput.n_lines, NoInput.popen)
     IN \E n \in LineCountsOf(r0), po \in PopenOutcomesOf(r0) :
          Commit(H(n, po))
  /\ UNCHANGED <<phase, bufLang, bufLoc>>

\* A registered timeout fires: on_update_timeout returns None, so the event
\* loop drops the source.
TimerFire ==
  /\ \E t \in timers :
       LET H(n, po) == on_update_timeout(Start("on_update_timeout"),
                                         Env(bufLang, bufLoc, n, po))
           r0 == H(NoInput.n_lines, NoInput.popen)
       IN \E n \in LineCountsOf(r0), po \in PopenOutcomesOf(r0) :
            Commit(source_remove(H(n, po), t))
  /\ UNCHANGED <<phase, bufLang, bufLoc>>

\* A registered io watch is dispatched: its stream is readable or closed.
OnRead ==
  /\ \E w \in watches :
       /\ \/ w.proc.sent > Len(w.data)
          \/ Hup(w.proc)
       /\ Commit(AfterCallback(on_read(Start("on_read"), w), w.id))
  /\ UNCHANGED <<phase, bufLang, bufLoc>>

DoDeactivate ==
  /\ phase = "active"
  /\ Commit(do_deactivate(Start("do_deactivate")))
  /\ phase' = "deactivated"
  /\ UNCHANGED <<bufLang, bufLoc>>

UnchangedPlugin ==
  UNCHANGED <<phase, bufLang, bufLoc, buffer, buffer_signals,
              connected, gutter, location, project_folder, context_data,
              update_timeout, parse_signal, timers, preview, merged, drawn>>

\* A watched process writes the next token of its output.
ProcWrite ==
  /\ \E w \in watches :
       /\ w.proc.st = "running"
       /\ w.proc.sent < Len(w.proc.out)
       /\ watches' = (watches \ {w}) \cup {[w EXCEPT !.proc.sent = @ + 1]}
  /\ fx' = FxNone
  /\ UNCHANGED orphans
  /\ UnchangedPlugin

\* A watched process that wrote all its output closes its output stream.
ProcClose ==
  /\ \E w \in watches :
       /\ w.proc.st = "running"
       /\ w.proc.sent = Len(w.proc.out)
       /\ watches' = (watches \ {w}) \cup {[w EXCEPT !.proc.st = "closed"]}
  /\ fx' = FxNone
  /\ UNCHANGED orphans
  /\ UnchangedPlugin

\* A watched process exits.
ProcExit ==
  /\ \E w \in watches :
       /\ w.proc.st = "closed"
       /\ watches' = (watches \ {w}) \cup {[w EXCEPT !.proc.st = "exited"]}
  /\ fx' = FxNone
  /\ UNCHANGED orphans
  /\ UnchangedPlugin

\* A process nothing watches writes output: no callback is dispatched.
OrphanOutput ==
  /\ orphans > 0
  /\ fx' = [FxNone EXCEPT !.op = "late_output"]
  /\ UNCHANGED <<orphans, watches>>
  /\ UnchangedPlugin

\* A process nothing watches exits.
OrphanExit ==
  /\ orphans > 0
  /\ orphans' = orphans - 1
  /\ fx' = FxNone
  /\ UNCHANGED watches
  /\ UnchangedPlugin

Next ==
  \/ DoActivate
  \/ NotifyBuffer
  \/ ViewNotify
  \/ BufferSavedLoaded
  \/ BufferLanguage
  \/ BufferChanged
  \/ TimerFire
  \/ OnRead
  \/ DoDeactivate
  \/ ProcWrite
  \/ ProcClose
  \/ ProcExit
  \/ OrphanOutput
  \/ OrphanExit

Spec == Init /\ [][Next]_vars

\* The event loop dispatches what is ready: a registered timeout fires in
\* the end, a watch whose stream is readable or closed is called back, and
\* a process goes on to write, close its output and exit.
Fairness ==
  /\ WF_vars(TimerFire)
  /\ WF_vars(OnRead)
  /\ WF_vars(ProcWrite)
  /\ WF_vars(ProcClose)
  /\ WF_vars(ProcExit)

SpecLive == Spec /\ Fairness

\* ------------------------------------------------- the delay of update alone

\* Line counts around every multiple of 2000.
DelayLineCounts ==
  {k * 2000 + r : k \in 0..MaxBlocks, r \in {0, 1, 1999}} \ {0}

\* A view attached to a shell script, with a snapshot, no timer pending and
\* no check in flight.
InitDelay ==
  /\ phase = "active"
  /\ bufLang = "sh"
  /\ bufLoc = "file"
  /\ buffer = "buffer"
  /\ buffer_signals = <<"saved", "loaded", "notify::language", "changed">>
  /\ connected = TRUE
  /\ gutter = TRUE
  /\ location = "file"
  /\ project_folder = "dir"
  /\ context_data = <<WithLevel(Comment("D1")), WithLevel(Comment("D2"))>>
  /\ update_timeout = 0
  /\ parse_signal = 0
  /\ timers = {}
  /\ watches = {}
  /\ orphans = 0
  /\ fx = FxNone
  /\ RendererIdle

\* changed of the buffer, for a buffer of n lines.
UpdateDelay ==
  /\ \E n \in DelayLineCounts :
       Commit(update(Changed(Start("update")),
                     Env(bufLang, bufLoc, n, NoInput.popen)))
  /\ UNCHANGED <<phase, bufLang, bufLoc>>

NextDelay == UpdateDelay

SpecDelay == InitDelay /\ [][NextDelay]_vars

\* ------------------------------------------------- GutterRenderer.merge_ranges

\* The order of Python on (start, end) tuples.
TupleLess(a, b) == a[1] < b[1] \/ (a[1] = b[1] /\ a[2] < b[2])

RECURSIVE SortedInsert(_, _)
SortedInsert(r, seq) ==
  IF seq = <<>> THEN <<r>>
  ELSE IF TupleLess(Head(seq), r)
       THEN <<Head(seq)>> \o SortedInsert(r, Tail(seq))
       ELSE <<r>> \o seq

\* sorted(ranges)
RECURSIVE sorted(_)
sorted(ranges) ==
  IF ranges = <<>> THEN <<>>
  ELSE SortedInsert(Head(ranges), sorted(Tail(ranges)))

\* The test of merge_ranges for extending the last range by r.
Extends(r, last) == r[1] >= last[1] /\ r[1] <= last[2] /\ r[2] >= last[2]

\* The loop of merge_ranges from the k-th sorted range on.
RECURSIVE MergeLoop(_, _, _)
MergeLoop(ranges, k, new_ranges) ==
  IF k > Len(ranges) THEN new_ranges
  ELSE LET r == ranges[k]
           n == Len(new_ranges)
           last == new_ranges[n]
       IN IF Extends(r, last)
          THEN MergeLoop(ranges, k + 1,
                         [new_ranges EXCEPT ![n] = <<last[1], r[2]>>])
          ELSE MergeLoop(ranges, k + 1, Append(new_ranges, r))

\* merge_ranges(ranges): the list it returns, or the exception it raises.
merge_ranges(ranges) ==
  LET s == sorted(ranges)
  IN IF s = <<>>
     THEN [raised |-> "IndexError", result |-> <<>>]
     ELSE [raised |-> "none", result |-> MergeLoop(s, 1, <<s[1]>>)]

\* The interval lists merge_ranges is called with in the runs of SpecMerge:
\* up to MaxRanges intervals (start, end), start <= end, of 0..MaxOffset.
Intervals ==
  {r \in (0..MaxOffset) \X (0..MaxOffset) : r[1] <= r[2]}

IntervalLists == UNION {[1..n -> Intervals] : n \in 0..MaxRanges}

\* merge_ranges is called with ranges, and once more with what it returned.
MergeRanges ==
  /\ ~merged.called
  /\ \E ranges \in IntervalLists :
       LET m == merge_ranges(ranges)
       IN merged' = [called |-> TRUE, ranges |-> ranges, result |-> m.result,
                     raised |-> m.raised,
                     again |-> IF m.raised = "none"
                               THEN merge_ranges(m.result).result
                               ELSE <<>>]
  /\ UNCHANGED <<preview, drawn, orphans, watches, fx>>
  /\ UNCHANGED <<phase, bufLang, bufLoc, buffer, buffer_signals, connected,
                 gutter, location, project_folder, context_data,
                 update_timeout, parse_signal, timers>>

NextMerge == MergeRanges

SpecMerge == Init /\ [][NextMerge]_vars

\* ---------------------------------------------- GutterRenderer.preview_fix

\* The text of the view's buffer in the runs of SpecFix: two lines.
ScratchText == <<"a", "b", "\n", "c", "d">>

\* Offset of the first character of a line (line numbers from 0).
RECURSIVE LineStart(_, _)
LineStart(text, line) ==
  IF line = 0 THEN 0
  ELSE LET from == LineStart(text, line - 1)
           nl == CHOOSE i \in (from + 1)..Len(text) :
                   /\ text[i] = "\n"
                   /\ \A j \in (from + 1)..(i - 1) : text[j] # "\n"
       IN nl

\* buf.get_iter_at_line_offset(line, char_offset), as an offset
get_iter_at_line_offset(text, line, char_offset) ==
  LineStart(text, line) + char_offset

\* The (line, column) pairs of the tool that are positions of ScratchText.
Positions == {<<1, 1>>, <<1, 2>>, <<1, 3>>, <<2, 1>>, <<2, 2>>, <<2, 3>>}

ReplacementTexts == {<<>>, <<"X">>, <<"Y", "Z">>}

\* item of message["fix"]["replacements"]
Items ==
  {[line |-> s[1], column |-> s[2], endLine |-> e[1], endColumn |-> e[2],
    replacement |-> txt] :
     s \in Positions, e \in Positions, txt \in ReplacementTexts}

ItemStart(item) ==
  get_iter_at_line_offset(ScratchText, item.line - 1, item.column - 1)

ItemEnd(item) ==
  get_iter_at_line_offset(ScratchText, item.endLine - 1, item.endColumn - 1)

\* The spans of two items do not overlap (they may touch).
Apart(a, b) == ItemEnd(a) <= ItemStart(b) \/ ItemEnd(b) <= ItemStart(a)

\* The fixes of the tool: up to MaxReplacements replacements, each span in
\* order, no two spans overlapping.
Fixes ==
  {f \in UNION {[1..n -> Items] : n \in 0..MaxReplacements} :
     /\ \A i \in 1..Len(f) : ItemStart(f[i]) <= ItemEnd(f[i])
     /\ \A i \in 1..Len(f), j \in 1..Len(f) : i # j => Apart(f[i], f[j])}

\* Gtk.TextBuffer: the text and the marks [off, left_gravity].
\* buf.create_mark(None, where, left_gravity)
create_mark(buf, where, left_gravity) ==
  [buf EXCEPT !.marks = Append(@, [off |-> where, left_gravity |-> left_gravity])]

\* A mark after buf.delete(a, b), a <= b: a mark in the deleted text ends
\* where the text was.
MarkAfterDelete(m, a, b) ==
  IF m.off <= a THEN m
  ELSE IF m.off <= b THEN [m EXCEPT !.off = a]
  ELSE [m EXCEPT !.off = @ - (b - a)]

\* buf.delete(start, end): the iterators are put in order.
buf_delete(buf, start, end) ==
  LET a == Min(start, end)
      b == Max(start, end)
  IN [text |-> SubSeq(buf.text, 1, a) \o SubSeq(buf.text, b + 1, Len(buf.text)),
      marks |-> [k \in 1..Len(buf.marks) |-> MarkAfterDelete(buf.marks[k], a, b)]]

\* A mark after buf.insert(at, text) of n characters: a mark at the place of
\* the insertion stays before the new text when it has left gravity and
\* goes behind it otherwise.
MarkAfterInsert(m, at, n) ==
  IF m.off < at THEN m
  ELSE IF m.off > at THEN [m EXCEPT !.off = @ + n]
  ELSE IF m.left_gravity THEN m
  ELSE [m EXCEPT !.off = @ + n]

buf_insert(buf, at, text) ==
  [text |-> SubSeq(buf.text, 1, at) \o text
              \o SubSeq(buf.text, at + 1, Len(buf.text)),
   marks |-> [k \in 1..Len(buf.marks) |->
                MarkAfterInsert(buf.marks[k], at, Len(text))]]

\* The first loop of preview_fix: a start mark with left gravity and an end
\* mark with right gravity for every item; the Replacement of item k holds
\* the marks 2k - 1 and 2k.
RECURSIVE CreateMarks(_, _, _)
CreateMarks(buf, items, k) ==
  IF k > Len(items) THEN buf
  ELSE LET s == create_mark(buf, get_iter_at_line_offset(
                      buf.text, items[k].line - 1, items[k].column - 1), TRUE)
           e == create_mark(s, get_iter_at_line_offset(
                      s.text, items[k].endLine - 1, items[k].endColumn - 1), FALSE)
       IN CreateMarks(e, items, k + 1)

StartMark(buf, k) == buf.marks[2 * k - 1].off

EndMark(buf, k) == buf.marks[2 * k].off

\* The second loop of preview_fix: delete the span between the marks of the
\* replacement, insert its text at its start mark.
RECURSIVE ApplyReplacements(_, _, _)
ApplyReplacements(buf, items, k) ==
  IF k > Len(items) THEN buf
  ELSE LET d == buf_delete(buf, StartMark(buf, k), EndMark(buf, k))
           i == buf_insert(d, StartMark(d, k), items[k].replacement)
       IN ApplyReplacements(i, items, k + 1)

\* Replacement.get_range(buf)
get_range(buf, k) ==
  LET start == StartMark(buf, k)
      end == EndMark(buf, k)
  IN IF start > end THEN <<end, start>> ELSE <<start, end>>

\* preview_fix(message) up to the merged inserted_ranges; items is
\* message["fix"]["replacements"].
preview_fix(items) ==
  IF items = <<>>
  THEN [PreviewNone EXCEPT !.called = TRUE]
  ELSE LET buf0 == [text |-> ScratchText, marks |-> <<>>]
           buf1 == CreateMarks(buf0, items, 1)
           buf2 == ApplyReplacements(buf1, items, 1)
           ranges == [k \in 1..Len(items) |-> get_range(buf2, k)]
           m == merge_ranges(ranges)
       IN [called |-> TRUE, items |-> items, text |-> buf2.text,
           ranges |-> ranges, inserted_ranges |-> m.result,
           raised |-> m.raised]

\* The tooltip of a message with the fix items is built.
PreviewFix ==
  /\ ~preview.called
  /\ \E items \in Fixes : preview' = preview_fix(items)
  /\ UNCHANGED <<merged, drawn, orphans, watches, fx>>
  /\ UNCHANGED <<phase, bufLang, bufLoc, buffer, buffer_signals, connected,
                 gutter, location, project_folder, context_data,
                 update_timeout, parse_signal, timers>>

NextFix == PreviewFix

SpecFix == Init /\ [][NextFix]_vars

\* -------------------------------------------------- GutterRenderer.do_draw

\* get_messages_in_range(line)
get_messages_in_range(data, line) ==
  SelectSeq(data, LAMBDA msg :
                    msg.file = "-" /\ line >= msg.line /\ line <= msg.endLine)

\* max(levels) of Python: the first of the greatest elements under __gt__.
RECURSIVE MaxFrom(_, _, _)
MaxFrom(levels, k, best) ==
  IF k > Len(levels) THEN best
  ELSE MaxFrom(levels, k + 1,
               IF Level_gt(levels[k], best) THEN levels[k] ELSE best)

\* do_draw for a line (numbered from 1): the level whose colour fills the
\* cell, None when nothing is painted.
do_draw(data, line) ==
  IF data = <<>> THEN None
  ELSE LET messages == get_messages_in_range(data, line)
       IN IF messages = <<>> THEN None
          ELSE LET levels == [i \in 1..Len(messages) |-> messages[i].levelcls]
               IN MaxFrom(levels, 2, levels[1])

\* The "level" values of the tool's comments, with one the plugin does not
\* know.
LevelCodes == {"style", "info", "warning", "error", "bogus"}

\* The comments of the tool in the runs of SpecDraw, on a two-line script
\* that sources another file.
DrawComments ==
  {[file |-> f, line |-> l[1], endLine |-> l[2], level |-> c] :
     f \in {"-", "lib.sh"}, l \in {<<1, 1>>, <<1, 2>>, <<2, 2>>},
     c \in LevelCodes}

\* The snapshots parse_shellcheck publishes for these comments.
DrawSnapshots ==
  {[i \in 1..Len(cs) |-> WithLevel(cs[i])] :
     cs \in UNION {[1..n -> DrawComments] : n \in 0..MaxMessages}}

\* A view attached to a shell script whose check published a snapshot.
InitDraw ==
  /\ phase = "active"
  /\ bufLang = "sh"
  /\ bufLoc = "file"
  /\ buffer = "buffer"
  /\ buffer_signals = <<"saved", "loaded", "notify::language", "changed">>
  /\ connected = TRUE
  /\ gutter = TRUE
  /\ location = "file"
  /\ project_folder = "dir"
  /\ context_data \in DrawSnapshots
  /\ update_timeout = 0
  /\ parse_signal = 0
  /\ timers = {}
  /\ watches = {}
  /\ orphans = 0
  /\ fx = FxNone
  /\ RendererIdle

\* The gutter draws the cell of a line.
DoDraw ==
  /\ gutter
  /\ \E line \in 1..2 :
       drawn' = [called |-> TRUE, line |-> line,
                 messages |-> get_messages_in_range(context_data, line),
                 level |-> do_draw(context_data, line)]
  /\ UNCHANGED <<preview, merged, orphans, watches, fx>>
  /\ UNCHANGED <<phase, bufLang, bufLoc, buffer, buffer_signals, connected,
                 gutter, location, project_folder, context_data,
                 update_timeout, parse_signal, timers>>

NextDraw == DoDraw

SpecDraw == InitDraw /\ [][NextDraw]_vars

\* ------------------------------------------------------------------ claims

\* C1: while a debounce timer is pending, a change notification (a call of
\* update) leaves that timer the only registered one, registers none and
\* starts no check; when the timer fires it is dropped and on_update_timeout
\* calls Popen once, which leaves exactly one watched process when it
\* succeeds.
C1_PendingTimerKept ==
  [][/\ (/\ timers # {}
         /\ fx'.op \in {"update", "update_location"}
         /\ fx'.update # "none")
          => (/\ timers' = timers
              /\ update_timeout' = update_timeout
              /\ fx'.scheduled = 0
              /\ ~fx'.spawned)
     /\ (fx'.op = "on_update_timeout")
          => (/\ Cardinality(timers) = 1
              /\ timers' = {}
              /\ fx'.spawned \/ fx'.warned \/ fx'.raised # "none"
              /\ Cardinality(watches') = IF fx'.spawned THEN 1 ELSE 0)]_vars

C1_Witness ==
  /\ fx.op = "update"
  /\ fx.update = "pending"
  /\ timers = {update_timeout}

\* C2: in a detached state (the view is not connected to its buffer) no
\* debounce timer is pending and no output watch is registered, no check is
\* started and no snapshot is published.
C2_DetachCancels ==
  (phase = "active" /\ ~connected)
    => (/\ timers = {}
        /\ watches = {}
        /\ ~fx.spawned
        /\ ~fx.redraw)

\* C3: a step that attaches the view to a buffer (connect_gutter connects,
\* or on_notify_buffer ends connected to the new buffer) starts the first
\* check at once and registers no debounce timer.
C3_AttachChecksAtOnce ==
  (fx.attached \/ (fx.op = "on_notify_buffer" /\ connected))
    => (fx.update = "immediate" /\ timers = {})

\* C4: no watch is registered for a process an earlier cycle started and
\* parse_shellcheck never gets the output of one; the step that starts a new
\* cycle leaves every earlier process that still runs running, with its
\* watch removed.
C4_SupersededNeverParsed ==
  /\ [](/\ \A w \in watches : ~w.proc.superseded
        /\ fx.parsed => ~fx.superseded)
  /\ [][(fx'.update \in {"immediate", "scheduled"} \/ fx'.op = "on_update_timeout")
          => (/\ fx'.orphaned = Cardinality({w \in watches : w.proc.st # "exited"})
              /\ orphans' = orphans + fx'.orphaned)]_vars

C4_Witness ==
  /\ fx.update = "scheduled"
  /\ fx.orphaned = 1
  /\ watches = {}

\* C5: the data a watch has accumulated is the output the process has
\* written, in order; parse_shellcheck is called only when the stream had
\* hung up and the process had exited, with the whole output, and the watch
\* is gone after it (so it is called at most once for a process).
C5_ParseOnceAfterClose ==
  /\ \A w \in watches :
       /\ w.parses = 0
       /\ Len(w.data) <= w.proc.sent
       /\ w.proc.sent <= Len(w.proc.out)
       /\ w.data = SubSeq(w.proc.out, 1, Len(w.data))
  /\ fx.parsed => (fx.hup /\ fx.exited /\ fx.data = fx.out)
  /\ (fx.op = "on_read" /\ ~(fx.hup /\ fx.exited)) => ~fx.parsed

C5_Witness ==
  /\ fx.parsed
  /\ fx.data = fx.out
  /\ Len(fx.data) > ReadChunk

\* C6: when the output of a completed invocation is not JSON, the snapshot
\* is the one before, nothing is redrawn, and no timer and no watch is left:
\* both handles are 0.
C6_BadOutputKeepsSnapshot ==
  [][(fx'.parsed /\ ~json_loads(fx'.data).ok)
       => (/\ context_data' = context_data
           /\ ~fx'.redraw
           /\ fx'.raised = "none"
           /\ update_timeout' = 0
           /\ parse_signal' = 0
           /\ timers' = {}
           /\ watches' = {})]_vars

C6_Witness ==
  /\ fx.parsed
  /\ fx.data = <<"TEXT">>
  /\ ~json_loads(fx.data).ok
  /\ context_data # <<>>

\* C7: when the timer fires and Popen finds no shellcheck, a warning is
\* emitted, no watch is registered, the snapshot is the one before and both
\* handles are 0, so the pending-timer guard lets the next update through.
C7_ToolNotFoundIdle ==
  [][(fx'.op = "on_update_timeout" /\ fx'.warned)
       => (/\ context_data' = context_data
           /\ ~fx'.spawned
           /\ fx'.raised = "none"
           /\ watches' = {}
           /\ timers' = {}
           /\ update_timeout' = 0
           /\ parse_signal' = 0)]_vars

C7_Witness ==
  /\ fx.op = "on_update_timeout"
  /\ fx.warned
  /\ context_data # <<>>
  /\ connected

\* C8: no error escapes on_update_timeout or the output callback.
C8_NoErrorEscapes == fx.raised = "none"

\* C9: at most one debounce timer and at most one output watch are
\* registered with the event loop.
C9_AtMostOneSource ==
  /\ Cardinality(timers) <= 1
  /\ Cardinality(watches) <= 1

C9_Witness ==
  /\ fx.op = "on_notify_buffer"
  /\ fx.orphaned = 1
  /\ Cardinality(watches) = 1

\* C10 as stated: the delay is min(10000, 200 * ceil(n / 2000)), which is
\* 200 under 2000 lines, 400 for 4001 lines and 10000 when the computed
\* value exceeds 10000.
C10_DelayCeil ==
  fx.scheduled # 0
    => (/\ fx.scheduled = Min(10000, 200 * CeilDiv(fx.n_lines, 2000))
        /\ fx.n_lines < 2000 => fx.scheduled = 200
        /\ fx.n_lines = 4001 => fx.scheduled = 400
        /\ 200 * CeilDiv(fx.n_lines, 2000) > 10000 => fx.scheduled = 10000)

\* C10 amended: the delay is min(10000, 200 * (floor(n / 2000) + 1)): a
\* multiple d of 200 with 2000 * (d / 200 - 1) <= n < 2000 * (d / 200) under
\* 98000 lines and 10000 from there on; 200 under 2000 lines, 600 for 4001
\* lines.
C10_DelayFloor ==
  fx.scheduled # 0
    => (/\ fx.n_lines < 98000
             => (/\ fx.scheduled % 200 = 0
                 /\ 2000 * ((fx.scheduled \div 200) - 1) <= fx.n_lines
                 /\ fx.n_lines < 2000 * (fx.scheduled \div 200))
        /\ fx.n_lines >= 98000 => fx.scheduled = 10000
        /\ fx.n_lines < 2000 => fx.scheduled = 200
        /\ fx.n_lines = 4001 => fx.scheduled = 600)

C10_Witness ==
  /\ fx.n_lines = 2000
  /\ fx.scheduled = 400

\* C11: a change notification received in Idle (no timer pending, no check
\* in flight) on an attached buffer never invokes the tool itself: it
\* registers a debounce timer with the computed delay, whatever the snapshot
\* holds, and Popen is called only when that timer fires. (The step that
\* attached the buffer has called update before any change notification is
\* delivered, so none of these is the first check after the connection.)
C11_ChangesAlwaysDebounced ==
  [][(/\ fx'.changed
      /\ fx'.op = "update"
      /\ connected
      /\ update_timeout = 0 /\ parse_signal = 0
      /\ timers = {} /\ watches = {})
       => (/\ fx'.update = "scheduled"
           /\ fx'.scheduled = Delay(fx'.n_lines)
           /\ timers' = {update_timeout'}
           /\ ~fx'.spawned /\ ~fx'.warned /\ fx'.raised = "none"
           /\ watches' = {})]_vars

\* The text of the buffer with every item's span replaced by its text, the
\* items taken in the order perm of their spans, from the k-th on; pos is
\* the end of the span before.
RECURSIVE Splice(_, _, _, _)
Splice(items, perm, k, pos) ==
  IF k > Len(items) THEN SubSeq(ScratchText, pos + 1, Len(ScratchText))
  ELSE LET it == items[perm[k]]
       IN SubSeq(ScratchText, pos + 1, ItemStart(it)) \o it.replacement
            \o Splice(items, perm, k + 1, ItemEnd(it))

\* The orders in which the spans of the items follow each other in the text
\* (more than one when empty spans share a position).
SpanOrders(items) ==
  {perm \in [1..Len(items) -> 1..Len(items)] :
     /\ \A i \in 1..Len(items), j \in 1..Len(items) : perm[i] = perm[j] => i = j
     /\ \A i \in 1..(Len(items) - 1) :
          ItemEnd(items[perm[i]]) <= ItemStart(items[perm[i + 1]])}

\* C12: after preview_fix applied the replacements of a fix whose spans do
\* not overlap (they may touch, in either list order), the scratch text is
\* the buffer's text with every span replaced by its replacement text, and
\* the range recorded for each replacement holds exactly its text.
C12_TouchingReplacementsKept ==
  (preview.called /\ preview.items # <<>>)
    => (/\ \E perm \in SpanOrders(preview.items) :
             preview.text = Splice(preview.items, perm, 1, 0)
        /\ \A k \in 1..Len(preview.items) :
             LET r == preview.ranges[k]
             IN SubSeq(preview.text, r[1] + 1, r[2]) = preview.items[k].replacement)

\* The integer points of the intervals of a list.
Points(ranges) == UNION {ranges[i][1]..ranges[i][2] : i \in 1..Len(ranges)}

\* C13: for every list of intervals (start <= end), the empty list and
\* lists with nested intervals included, merge_ranges returns a list that
\* is sorted ascending, whose intervals neither overlap nor touch, and that
\* covers the same integer points as its input.
C13_MergeSortedDisjointSameCover ==
  merged.called
    => (/\ merged.raised = "none"
        /\ \A i \in 1..(Len(merged.result) - 1) :
             merged.result[i][2] < merged.result[i + 1][1]
        /\ \A i \in 1..Len(merged.result) :
             merged.result[i][1] <= merged.result[i][2]
        /\ Points(merged.result) = Points(merged.ranges))

\* C14: merge_ranges applied to what merge_ranges returned returns the same
\* list.
C14_MergeIdempotent ==
  (merged.called /\ merged.raised = "none") => merged.again = merged.result

\* The order of C15: UNKNOWN below NOTE, then INFO, WARN, ERROR.
ClaimedRank(l) ==
  CASE l = "UNKNOWN" -> 0
    [] l = "NOTE" -> 1
    [] l = "INFO" -> 2
    [] l = "WARN" -> 3
    [] l = "ERROR" -> 4

\* C15: Level is ordered UNKNOWN < NOTE < INFO < WARN < ERROR, and the cell
\* of a line is painted with the greatest level, under this order, of the
\* messages that cover the line: ERROR when an ERROR message and a message
\* of an unrecognised level cover it.
C15_UnknownLowestErrorPainted ==
  (drawn.called /\ drawn.messages # <<>>)
    => (/\ \E i \in 1..Len(drawn.messages) :
             drawn.messages[i].levelcls = drawn.level
        /\ \A i \in 1..Len(drawn.messages) :
             ClaimedRank(drawn.messages[i].levelcls) <= ClaimedRank(drawn.level)
        /\ \A i \in 1..Len(drawn.messages), j \in 1..Len(drawn.messages) :
             Level_lt(drawn.messages[i].levelcls, drawn.messages[j].levelcls)
               <=> ClaimedRank(drawn.messages[i].levelcls)
                     < ClaimedRank(drawn.messages[j].levelcls))

\* The view's buffer is one the plugin attaches to: a shell script in a
\* folder.
Attachable == phase = "active" /\ bufLang = "sh" /\ bufLoc = "file"

\* The last step called Popen: a check was started, or failed to start.
PopenCalled ==
  fx.spawned \/ fx.warned \/ fx.raised = "PermissionError"

\* C16: a change of an attachable buffer is followed by the start of a
\* check (by the change notification itself or by a timer firing later),
\* unless the view leaves that buffer or the buffer stops being attachable.
C16_ChangeLeadsToCheck ==
  (fx.changed /\ Attachable)
    ~> (PopenCalled \/ ~Attachable \/ fx.op = "on_notify_buffer")

\* C17: the output callback never fails; called when the stream has closed
\* and the process has not exited yet, it keeps the watch for a retry; called
\* when the process has exited, it parses the output and leaves the
\* scheduler idle: parse_signal is 0 and no watch is registered.
C17_CompletedCheckReturnsIdle ==
  fx.op = "on_read"
    => (/\ fx.raised = "none"
        /\ (fx.hup /\ ~fx.exited)
             => (/\ ~fx.parsed
                 /\ \E w \in watches : w.id = parse_signal)
        /\ (fx.hup /\ fx.exited)
             => (/\ fx.parsed
                 /\ parse_signal = 0
                 /\ watches = {}))

\* C18: the recorded handles match the event loop: update_timeout is not 0
\* exactly when a debounce timer is registered, and is its id; parse_signal
\* is not 0 exactly when an output watch is registered, and is its id.
C18_HandlesMatchSources ==
  /\ update_timeout # 0 <=> timers # {}
  /\ timers \subseteq {update_timeout}
  /\ parse_signal # 0 <=> watches # {}
  /\ \A w \in watches : w.id = parse_signal

\* C19: connected is true exactly when the 'changed' handler is connected
\* to the view's buffer, as the last entry of buffer_signals, so that
\* disconnect_gutter pops the 'changed' handler.
C19_ConnectedIffChangedLast ==
  phase = "active"
    => (/\ connected <=> HasHandler("changed")
        /\ connected => buffer_signals[Len(buffer_signals)] = "changed"
        /\ \A sig \in {"saved", "loaded", "notify::language"} : HasHandler(sig))

\* C20: a snapshot is published only for the text the view's buffer has at
\* that moment: no edit of the buffer and no switch to another buffer came
\* between the start of the check and the publication.
C20_PublishedForCurrentText ==
  /\ fx.redraw => fx.fresh
  /\ \A w \in watches : w.proc.fresh

====
